---- MODULE Spec2Model ----
(***************************************************************************)
(* A model of the ingestion pipeline of the Dota 2 match observer:         *)
(* the file-backed retry queue (observer/queue.py), the record store       *)
(* (observer/database.py) and the orchestrator (observer/main.py).         *)
(***************************************************************************)
EXTENDS Integers, Sequences, FiniteSets, TLC

VARIABLES
    queue,          \* QueueManager.queue: the in-memory deque of QueueItem
    file,           \* queue.json: whether it exists, whether it is whole, its JSON array
    item,           \* the QueueItem get_next_match returned (<<>> is None)
    clock,          \* the value the next time.time() returns
    matches,        \* the rows of table matches, in insertion order
    player_matches, \* the rows of table player_matches, in insertion order
    players,        \* table players: account id -> <<>> (no row) or <<row>>
    pc,             \* the phase MatchObserver.run is in
    todo,           \* the players the running phase has still to visit
    wall,           \* the wall clock DotaAPI reads, in tenths of a second
    last_request_time, \* DotaAPI.last_request_time, in tenths of a second
    last,           \* the call that just completed and what it reported
    dropped         \* the jobs (match_id, added_at) retry_match gave up on

qvars == <<queue, file, item, clock>>
dbvars == <<matches, player_matches, players>>
runvars == <<pc, todo>>
apivars == <<wall, last_request_time>>
vars == <<queue, file, item, clock, matches, player_matches, players, pc, todo, wall,
         last_request_time, last, dropped>>

----------------------------------------------------------------------------
(* Bounds of the model *)

MaxMatch == 2       \* match ids are 1..MaxMatch
MaxQueue == 2       \* add_match is not called on a queue this long
MaxClock == 4       \* add_match and retry_match read time.time() this often at most

(* Program constants *)

max_retries == 3

\* config.py, in seconds
POLLING_INTERVAL == 60

PROFILE_UPDATE_INTERVAL == 3600

MatchIds == 1 .. MaxMatch

\* the roster: the account ids of the active players
Roster == <<1, 2>>

\* the account ids the players table is asked about
AccountIds == {1, 2}

\* an account the players table has no row for when the process starts
Newcomer == 3

\* the keys a row of players can have
PlayerKeys == AccountIds \cup {Newcomer}

\* the player_info the remote serves for an account: two versions of a profile
Profiles == {"p", "q"}

\* time.time() when the process first starts: any instant later than 90 days
Epoch == 100 * 24 * 60 * 60

\* the priorities the observer enqueues with: 1 backlog, 2 new match
Priorities == {1, 2}

----------------------------------------------------------------------------
(* observer/models.py: QueueItem.  Optional[float] is <<>> (None) or <<t>>. *)

QueueItem(match_id, added_at, retry_count, last_retry, priority) ==
    [match_id |-> match_id, added_at |-> added_at, retry_count |-> retry_count,
     last_retry |-> last_retry, priority |-> priority]

\* QueueItem(match_id=..., added_at=..., priority=...): the defaults of the rest
NewQueueItem(match_id, added_at, priority) ==
    QueueItem(match_id, added_at, 0, <<>>, priority)

----------------------------------------------------------------------------
(* JSON, as json.dump writes it and json.load reads it.  A value is        *)
(* <<"number", n>> or <<"null">>; an object is the sequence of its         *)
(* <<key, value>> members in the order vars(item) lists them.              *)

JsonNumber(n) == <<"number", n>>
JsonNull == <<"null">>

JsonOptional(opt) == IF opt = <<>> THEN JsonNull ELSE JsonNumber(opt[1])

\* a dump that leaves retry_count out
DumpItem_without_retry_count(it) ==
    << <<"match_id", JsonNumber(it.match_id)>>,
       <<"added_at", JsonNumber(it.added_at)>>,
       <<"last_retry", JsonOptional(it.last_retry)>>,
       <<"priority", JsonNumber(it.priority)>> >>

\* vars(item) of a QueueItem, dumped
DumpItem(it) ==
    << <<"match_id", JsonNumber(it.match_id)>>,
       <<"added_at", JsonNumber(it.added_at)>>,
       <<"retry_count", JsonNumber(it.retry_count)>>,
       <<"last_retry", JsonOptional(it.last_retry)>>,
       <<"priority", JsonNumber(it.priority)>> >>

HasKey(obj, key) == \E i \in 1 .. Len(obj) : obj[i][1] = key

Member(obj, key) == obj[CHOOSE i \in 1 .. Len(obj) : obj[i][1] = key][2]

\* a number member as Python reads it; null reads as None
PyOptional(v) == IF v[1] = "null" THEN <<>> ELSE <<v[2]>>

\* QueueItem(**obj): the dataclass defaults fill the members the object lacks
LoadItem(obj) ==
    QueueItem(Member(obj, "match_id")[2],
              Member(obj, "added_at")[2],
              IF HasKey(obj, "retry_count") THEN Member(obj, "retry_count")[2] ELSE 0,
              IF HasKey(obj, "last_retry") THEN PyOptional(Member(obj, "last_retry")) ELSE <<>>,
              IF HasKey(obj, "priority") THEN Member(obj, "priority")[2] ELSE 0)

NoFile == [exists |-> FALSE, torn |-> FALSE, items |-> <<>>]

\* queue.json after open(queue_file, 'w') truncated it and json.dump did not
\* complete: no JSON document
TornFile == [exists |-> TRUE, torn |-> TRUE, items |-> <<>>]

\* QueueManager._save_queue: the whole deque, in deque order
save_queue(q) ==
    [exists |-> TRUE, torn |-> FALSE, items |-> [i \in 1 .. Len(q) |-> DumpItem(q[i])]]

\* QueueManager._load_queue, after self.queue = deque()
load_queue(f) ==
    IF f.exists /\ ~f.torn
    THEN [i \in 1 .. Len(f.items) |-> LoadItem(f.items[i])]
    ELSE <<>>

----------------------------------------------------------------------------
(* QueueManager.get_next_match: sorted(self.queue, key=(priority,          *)
(* -retry_count)), a stable ascending sort, then popleft.                  *)

\* Python's tuple comparison of the keys: key(a) <= key(b)
KeyLeq(a, b) ==
    \/ a.priority < b.priority
    \/ a.priority = b.priority /\ (0 - a.retry_count) <= (0 - b.retry_count)

\* x put behind every element whose key is <= key(x): keeps equal keys in order
RECURSIVE InsertSorted(_, _)
InsertSorted(s, x) ==
    IF s = <<>> THEN <<x>>
    ELSE IF KeyLeq(s[Len(s)], x) THEN Append(s, x)
    ELSE Append(InsertSorted(SubSeq(s, 1, Len(s) - 1), x), s[Len(s)])

RECURSIVE sorted(_)
sorted(q) ==
    IF q = <<>> THEN <<>>
    ELSE InsertSorted(sorted(SubSeq(q, 1, Len(q) - 1)), q[Len(q)])

JobOf(it) == <<it.match_id, it.added_at>>

\* what a completed call reports: arg is <<>> or <<the item, the row or the
\* listed ids it was about>>
Report(op, arg, result) == [op |-> op, arg |-> arg, result |-> result]

----------------------------------------------------------------------------
(* QueueManager: each operation as the change it makes to the queue, the    *)
(* snapshot file and the clock.                                             *)

\* QueueManager.add_match(match_id, priority)
add_match(match_id, priority) ==
    /\ queue' = Append(queue, NewQueueItem(match_id, clock, priority))
    /\ file' = save_queue(queue')
    /\ clock' = clock + 1

\* QueueManager.get_next_match(): the item it returns is item'
get_next_match ==
    IF queue = <<>>
    THEN /\ item' = <<>>
         /\ UNCHANGED queue
    ELSE /\ item' = <<Head(sorted(queue))>>
         /\ queue' = Tail(sorted(queue))

\* the item retry_match appends
Retried(it, now) == [it EXCEPT !.retry_count = @ + 1, !.last_retry = <<now>>]

\* retry_match with the bound compared by <= : one retry too many
retry_match_one_more(it) ==
    IF it.retry_count <= max_retries
    THEN /\ queue' = Append(queue, Retried(it, clock))
         /\ file' = save_queue(queue')
         /\ clock' = clock + 1
         /\ UNCHANGED dropped
    ELSE /\ dropped' = dropped \cup {JobOf(it)}
         /\ UNCHANGED <<queue, file, clock>>

\* retry_match without self.retry_count += 1: the job goes back as it came
retry_match_uncounted(it) ==
    IF it.retry_count < max_retries
    THEN /\ queue' = Append(queue, [it EXCEPT !.last_retry = <<clock>>])
         /\ file' = save_queue(queue')
         /\ clock' = clock + 1
         /\ UNCHANGED dropped
    ELSE /\ dropped' = dropped \cup {JobOf(it)}
         /\ UNCHANGED <<queue, file, clock>>

\* QueueManager.retry_match(it)
retry_match(it) ==
    IF it.retry_count < max_retries
    THEN /\ queue' = Append(queue, Retried(it, clock))
         /\ file' = save_queue(queue')
         /\ clock' = clock + 1
         /\ UNCHANGED dropped
    ELSE /\ dropped' = dropped \cup {JobOf(it)}     \* logger.warning(exceeded max retries)
         /\ UNCHANGED <<queue, file, clock>>

TimeLeft(n) == clock + n <= Epoch + MaxClock

----------------------------------------------------------------------------
(* Database: tables matches and player_matches.  schema.sql is not part of  *)
(* the sources at hand: the two key constraints below are the ones the      *)
(* specification states.  PlayerMatch and Match.lobby_type_name, which      *)
(* main.py and database.py use, are not defined in models.py; the rows are  *)
(* modelled as store_match reads them.                                      *)

MatchRow(match_id, match_data) == [match_id |-> match_id, match_data |-> match_data]

PlayerRow(match_id, account_id) == [match_id |-> match_id, account_id |-> account_id]

\* an is_match_stored that never finds the row
is_match_stored_never(ms, match_id) == FALSE

\* Database.is_match_stored: SELECT 1 FROM matches WHERE match_id = ?
is_match_stored(ms, match_id) == \E i \in 1 .. Len(ms) : ms[i].match_id = match_id

\* schema: the uniqueness constraint on matches.match_id
MatchIdTaken(ms, match_id) == \E i \in 1 .. Len(ms) : ms[i].match_id = match_id

\* schema: the composite key (match_id, account_id) of player_matches
PlayerKeyTaken(pms, row) ==
    \E i \in 1 .. Len(pms) :
        pms[i].match_id = row.match_id /\ pms[i].account_id = row.account_id

\* the INSERT INTO matches of store_match; statement 1 of the transaction
InsertMatch(ms, match, failAt) ==
    IF failAt = 1 THEN [error |-> "OperationalError", rows |-> ms]
    ELSE IF MatchIdTaken(ms, match.match_id) THEN [error |-> "IntegrityError", rows |-> ms]
    ELSE [error |-> "none", rows |-> Append(ms, match)]

\* the loop of INSERT INTO player_matches; row k is statement k + 1
RECURSIVE InsertPlayerMatches(_, _, _, _)
InsertPlayerMatches(pms, rows, stmt, failAt) ==
    IF rows = <<>> THEN [error |-> "none", rows |-> pms]
    ELSE IF failAt = stmt THEN [error |-> "OperationalError", rows |-> pms]
    ELSE IF PlayerKeyTaken(pms, Head(rows)) THEN [error |-> "IntegrityError", rows |-> pms]
    ELSE InsertPlayerMatches(Append(pms, Head(rows)), Tail(rows), stmt + 1, failAt)

\* store_match where a taken match_id is skipped and the player rows still go in
store_match_ignore(ms, pms, match, rows, failAt) ==
    LET m == InsertMatch(ms, match, failAt)
        p == InsertPlayerMatches(pms, rows, 2, failAt)
    IN  IF m.error = "OperationalError" \/ p.error = "OperationalError"
        THEN [error |-> "OperationalError", matches |-> ms, player_matches |-> pms]
        ELSE [error |-> "none", matches |-> m.rows, player_matches |-> p.rows]

\* store_match without the rollback: what was inserted before the failure stays
store_match_partial(ms, pms, match, rows, failAt) ==
    LET m == InsertMatch(ms, match, failAt)
        q == InsertPlayerMatches(pms, rows, 2, failAt)
    IN  IF m.error # "none"
        THEN [error |-> m.error, matches |-> m.rows, player_matches |-> pms]
        ELSE [error |-> q.error, matches |-> m.rows, player_matches |-> q.rows]

\* store_match as INSERT OR REPLACE: the row of a taken match_id is overwritten
store_match_replace(ms, pms, match, rows, failAt) ==
    [error |-> "none",
     matches |-> IF MatchIdTaken(ms, match.match_id)
                 THEN [i \in 1 .. Len(ms) |->
                          IF ms[i].match_id = match.match_id THEN match ELSE ms[i]]
                 ELSE Append(ms, match),
     player_matches |-> pms]

\* Database.store_match(match, player_matches): commit, or rollback and raise.
\* failAt is the statement the database fails at of its own (0: none).
store_match(ms, pms, match, rows, failAt) ==
    LET m == InsertMatch(ms, match, failAt)
        p == InsertPlayerMatches(pms, rows, 2, failAt)
    IN  IF m.error # "none"
        THEN [error |-> m.error, matches |-> ms, player_matches |-> pms]
        ELSE IF p.error # "none"
        THEN [error |-> p.error, matches |-> ms, player_matches |-> pms]
        ELSE [error |-> "none", matches |-> m.rows, player_matches |-> p.rows]

\* a row of table players: the profile columns, the soft-delete flag and
\* last_profile_update, <<>> while it is NULL
Player(profile, active, last_profile_update) ==
    [profile |-> profile, active |-> active, last_profile_update |-> last_profile_update]

\* schema: the default of players.active for an INSERT that does not name it
ActiveByDefault == TRUE

\* add_player as an INSERT OR REPLACE: the row is written anew each time
add_player_replace(ps, account_id, player_info) ==
    [ps EXCEPT ![account_id] = <<Player(player_info, ActiveByDefault, <<>>)>>]

\* Database.add_player(account_id, player_info): UPDATE ... SET the profile
\* columns, active = TRUE; INSERT if no row was updated
add_player(ps, account_id, player_info) ==
    IF ps[account_id] # <<>>
    THEN [ps EXCEPT ![account_id] =
              <<Player(player_info, TRUE, ps[account_id][1].last_profile_update)>>]
    ELSE [ps EXCEPT ![account_id] = <<Player(player_info, ActiveByDefault, <<>>)>>]

\* remove_player as DELETE FROM players WHERE account_id = ?
remove_player_hard(ps, account_id) == [ps EXCEPT ![account_id] = <<>>]

\* Database.remove_player(account_id): UPDATE players SET active = FALSE
remove_player(ps, account_id) ==
    IF ps[account_id] # <<>>
    THEN [ps EXCEPT ![account_id] =
              <<Player(ps[account_id][1].profile, FALSE,
                       ps[account_id][1].last_profile_update)>>]
    ELSE ps

\* Database.update_player_profile(account_id, player_info) at time now:
\* UPDATE players SET the profile columns, last_profile_update = now
update_player_profile(ps, account_id, player_info, now) ==
    IF ps[account_id] # <<>>
    THEN [ps EXCEPT ![account_id] =
              <<Player(player_info, ps[account_id][1].active, <<now>>)>>]
    ELSE ps

\* get_active_players as SELECT * FROM players: the flag is not looked at
get_active_players_all(ps) ==
    {a \in DOMAIN ps : ps[a] # <<>>}

\* Database.get_active_players(): SELECT * FROM players WHERE active = TRUE
get_active_players(ps) ==
    {a \in DOMAIN ps : ps[a] # <<>> /\ ps[a][1].active}

\* the match_data a detail response carries
Payloads == {"a", "b"}

\* the account ids of a detail's players: none, one, two, and two players
\* without account_id (process_match gives both account_id 0)
PlayerLists == {<<>>, <<1>>, <<2>>, <<1, 2>>, <<0, 0>>}

PlayerMatches(match_id, accounts) ==
    [i \in 1 .. Len(accounts) |-> PlayerRow(match_id, accounts[i])]

----------------------------------------------------------------------------
(* The state after construction: MatchObserver.__init__ on a fresh          *)
(* deployment (no queue.json, no match stored) that monitors the roster.    *)

Init ==
    /\ queue = <<>>
    /\ file = NoFile
    /\ item = <<>>
    /\ clock = Epoch
    /\ matches = <<>>
    /\ player_matches = <<>>
    /\ players = [a \in PlayerKeys |->
                      IF a \in AccountIds THEN <<Player("p", TRUE, <<Epoch>>)>> ELSE <<>>]
    /\ pc = "bootstrapping"
    /\ todo = Roster
    /\ wall = 10 * Epoch
    /\ last_request_time = 0
    /\ last = Report("init", <<>>, "none")
    /\ dropped = {}

----------------------------------------------------------------------------
(* SpecQueue: any sequence of calls on one QueueManager by a caller that    *)
(* holds the item it dequeued until it retries or releases it, and          *)
(* restarts of the process.                                                 *)

CallAddMatch(match_id, priority) ==
    /\ Len(queue) < MaxQueue
    /\ TimeLeft(1)
    /\ add_match(match_id, priority)
    /\ last' = Report("add_match", <<queue'[Len(queue')]>>, "added")
    /\ UNCHANGED <<item, dropped, dbvars, runvars, apivars>>

CallGetNextMatch ==
    /\ item = <<>>
    /\ get_next_match
    /\ last' = Report("get_next_match", item', IF item' = <<>> THEN "None" ELSE "item")
    /\ UNCHANGED <<file, clock, dropped, dbvars, runvars, apivars>>

CallRetryMatch ==
    /\ item # <<>>
    /\ item[1].retry_count < max_retries => TimeLeft(1)
    /\ retry_match(item[1])
    /\ item' = <<>>
    /\ last' = Report("retry_match", item,
                      IF item[1].retry_count < max_retries THEN "requeued"
                      ELSE "exceeded max retries")
    /\ UNCHANGED <<dbvars, runvars, apivars>>

\* the caller is done with the item and does not retry it
Release ==
    /\ item # <<>>
    /\ item' = <<>>
    /\ last' = Report("release", item, "none")
    /\ UNCHANGED <<queue, file, clock, dropped, dbvars, runvars, apivars>>

\* the process stops and QueueManager(queue_file) is constructed anew
RestartQueue ==
    /\ queue' = load_queue(file)
    /\ item' = <<>>
    /\ last' = Report("restart", <<>>, "none")
    /\ UNCHANGED <<file, clock, dropped, dbvars, runvars, apivars>>

NextQueue ==
    \/ \E m \in MatchIds, p \in Priorities : CallAddMatch(m, p)
    \/ CallGetNextMatch
    \/ CallRetryMatch
    \/ Release
    \/ RestartQueue

SpecQueue == Init /\ [][NextQueue]_vars

----------------------------------------------------------------------------
(* SpecDisk: the calls of one QueueManager on a disk that can fail, and a   *)
(* process that can die inside add_match.                                   *)

\* how the write of _save_queue goes: it completes, open() raises, or
\* json.dump raises after open() truncated the file
Disks == {"ok", "open_fails", "dump_fails"}

\* _save_queue on deque q over file f: try: open, json.dump; except
\* Exception: logger.error.  raised: an exception left the method.
try_save_queue(q, f, disk) ==
    [file |-> IF disk = "ok" THEN save_queue(q)
              ELSE IF disk = "open_fails" THEN f
              ELSE TornFile,
     raised |-> FALSE]

\* _load_queue after self.queue = deque(): if the file exists, try: json.load,
\* deque(QueueItem(**item) ...); except Exception: logger.error
try_load_queue(f, read) ==
    [queue |-> IF read = "ok" THEN load_queue(f) ELSE <<>>,
     failed |-> f.exists /\ (read # "ok" \/ f.torn),
     raised |-> FALSE]

AddMatchOnDisk(match_id, priority, disk) ==
    LET r == try_save_queue(Append(queue, NewQueueItem(match_id, clock, priority)),
                            file, disk)
    IN  /\ Len(queue) < MaxQueue
        /\ TimeLeft(1)
        /\ queue' = Append(queue, NewQueueItem(match_id, clock, priority))
        /\ file' = r.file
        /\ clock' = clock + 1
        /\ last' = Report("add_match", <<queue'[Len(queue')]>>,
                          [disk |-> disk, raised |-> r.raised])
        /\ UNCHANGED <<item, dropped, dbvars, runvars, apivars>>

RetryMatchOnDisk(disk) ==
    /\ item # <<>>
    /\ item[1].retry_count < max_retries
    /\ TimeLeft(1)
    /\ LET r == try_save_queue(Append(queue, Retried(item[1], clock)), file, disk)
       IN  /\ queue' = Append(queue, Retried(item[1], clock))
           /\ file' = r.file
           /\ last' = Report("retry_match", item, [disk |-> disk, raised |-> r.raised])
    /\ clock' = clock + 1
    /\ item' = <<>>
    /\ UNCHANGED <<dropped, dbvars, runvars, apivars>>

\* the process stops between two calls and QueueManager(queue_file) is
\* constructed anew
ConstructOnDisk(read) ==
    LET r == try_load_queue(file, read)
    IN  /\ queue' = r.queue
        /\ item' = <<>>
        /\ last' = Report("construct", <<>>,
                          [disk |-> IF r.failed THEN "read_fails" ELSE "ok",
                           raised |-> r.raised])
        /\ UNCHANGED <<file, clock, dropped, dbvars, runvars, apivars>>

\* where the process can die inside add_match: after the append and before
\* open(), between open() and the end of json.dump, after the file is closed
CrashPoints == {"before_open", "in_dump", "after_dump"}

\* the process dies inside add_match(match_id, priority) and is started
\* again; last.arg keeps the deque before and after the mutation
CrashInAddMatch(match_id, priority, point) ==
    LET after == Append(queue, NewQueueItem(match_id, clock, priority))
    IN  /\ Len(queue) < MaxQueue
        /\ TimeLeft(1)
        /\ file' = IF point = "before_open" THEN file
                   ELSE IF point = "in_dump" THEN TornFile
                   ELSE save_queue(after)
        /\ queue' = try_load_queue(file', "ok").queue
        /\ item' = <<>>
        /\ clock' = clock + 1
        /\ last' = Report("crash", <<queue, after>>, point)
        /\ UNCHANGED <<dropped, dbvars, runvars, apivars>>

NextDisk ==
    \/ \E m \in MatchIds, p \in Priorities, disk \in Disks : AddMatchOnDisk(m, p, disk)
    \/ CallGetNextMatch
    \/ \E disk \in Disks : RetryMatchOnDisk(disk)
    \/ Release
    \/ \E read \in {"ok", "error"} : ConstructOnDisk(read)
    \/ \E m \in MatchIds, p \in Priorities, point \in CrashPoints :
           CrashInAddMatch(m, p, point)

SpecDisk == Init /\ [][NextDisk]_vars

----------------------------------------------------------------------------
(* SpecStore: any sequence of store_match calls on one database.            *)

CallStoreMatch(match_id, data, accounts, failAt) ==
    LET r == store_match(matches, player_matches, MatchRow(match_id, data),
                         PlayerMatches(match_id, accounts), failAt)
    IN  /\ matches' = r.matches
        /\ player_matches' = r.player_matches
        /\ players' = players
        /\ last' = Report("store_match", <<MatchRow(match_id, data)>>, r.error)
        /\ UNCHANGED <<qvars, dropped, runvars, apivars>>

NextStore ==
    \E m \in MatchIds, d \in Payloads, a \in PlayerLists :
        \E failAt \in 0 .. Len(a) + 1 : CallStoreMatch(m, d, a, failAt)

SpecStore == Init /\ [][NextStore]_vars

----------------------------------------------------------------------------
(* SpecDatabase: any sequence of the calls of Database that write, on one   *)
(* database: store_match, add_player, remove_player, update_player_profile. *)

CallAddPlayer(account_id, player_info) ==
    /\ players' = add_player(players, account_id, player_info)
    /\ last' = Report("add_player", <<account_id>>, "none")
    /\ UNCHANGED <<qvars, dropped, matches, player_matches, runvars, apivars>>

CallRemovePlayer(account_id) ==
    /\ players' = remove_player(players, account_id)
    /\ last' = Report("remove_player", <<account_id>>, "none")
    /\ UNCHANGED <<qvars, dropped, matches, player_matches, runvars, apivars>>

CallUpdatePlayerProfile(account_id, player_info) ==
    /\ players' = update_player_profile(players, account_id, player_info, clock)
    /\ last' = Report("update_player_profile", <<account_id>>, "none")
    /\ UNCHANGED <<qvars, dropped, matches, player_matches, runvars, apivars>>

NextDatabase ==
    \/ \E m \in MatchIds, d \in Payloads, a \in {<<1>>, <<1, 2>>} :
           \E failAt \in 0 .. Len(a) + 1 : CallStoreMatch(m, d, a, failAt)
    \/ \E a \in AccountIds, info \in Profiles : CallAddPlayer(a, info)
    \/ \E a \in AccountIds : CallRemovePlayer(a)
    \/ \E a \in AccountIds, info \in Profiles : CallUpdatePlayerProfile(a, info)

SpecDatabase == Init /\ [][NextDatabase]_vars

----------------------------------------------------------------------------
(* SpecPlayers: any sequence of add_player, remove_player and               *)
(* update_player_profile calls, for accounts with and without a row, on a   *)
(* database that matches are stored in.                                     *)

NextPlayers ==
    \/ \E m \in MatchIds : CallStoreMatch(m, "a", <<1, 2>>, 0)
    \/ \E a \in PlayerKeys, info \in Profiles : CallAddPlayer(a, info)
    \/ \E a \in PlayerKeys : CallRemovePlayer(a)
    \/ \E a \in PlayerKeys, info \in Profiles : CallUpdatePlayerProfile(a, info)

SpecPlayers == Init /\ [][NextPlayers]_vars

----------------------------------------------------------------------------
(* The remote API, as the observer sees it.                                 *)

Day == 24 * 60 * 60

\* what the remote says of one match in a player's list: not listed, started
\* 89 days ago, started 91 days ago, listed without start_time
Ages == {"absent", "recent", "old", "undated"}

\* one element of the list get_player_matches returns; start_time is <<>> when
\* the key is missing
Candidate(match_id, age, now) ==
    [match_id |-> match_id,
     start_time |-> IF age = "undated" THEN <<>>
                    ELSE IF age = "recent" THEN <<now - 89 * Day>>
                    ELSE <<now - 91 * Day>>]

\* the ids a listing names with a start_time inside the last 90 days
InWindow(ages) == {m \in MatchIds : ages[m] = "recent"}

\* the list the remote returns, by match id from m on
RECURSIVE PlayerMatchList(_, _, _)
PlayerMatchList(ages, m, now) ==
    IF m > MaxMatch THEN <<>>
    ELSE IF ages[m] = "absent" THEN PlayerMatchList(ages, m + 1, now)
    ELSE <<Candidate(m, ages[m], now)>> \o PlayerMatchList(ages, m + 1, now)

\* how get_match_details ends: a detail, 404, 429, another status or a
\* connection error, a response without "result"
FetchOutcomes == {"ok", "not_found", "rate_limited", "transient", "malformed"}

----------------------------------------------------------------------------
(* observer/filters.py and MatchObserver.filter_matches                     *)

\* filter with > for >= : a match that started exactly 90 days ago is left out
LastThreeMonthsFilter_strict(match, now) ==
    LET start_time == IF match.start_time = <<>> THEN 0 ELSE match.start_time[1]
    IN  start_time > now - (90 * 24 * 60 * 60)

\* LastThreeMonthsFilter.filter(match) at time now
LastThreeMonthsFilter(match, now) ==
    LET start_time == IF match.start_time = <<>> THEN 0 ELSE match.start_time[1]
    IN  start_time >= now - (90 * 24 * 60 * 60)

\* MatchObserver.filter_matches with self.filters = [LastThreeMonthsFilter()]
filter_matches(ms, now) == SelectSeq(ms, LAMBDA m : LastThreeMonthsFilter(m, now))

\* the loops without the is_match_stored test
Unstored_unchecked(cands, ms) == cands

\* the candidates the loops of initialize_player and check_new_matches enqueue
Unstored(cands, ms) == SelectSeq(cands, LAMBDA c : ~is_match_stored(ms, c.match_id))

\* the deque after add_match for each candidate in turn
RECURSIVE AddAll(_, _, _, _)
AddAll(q, cands, priority, now) ==
    IF cands = <<>> THEN q
    ELSE AddAll(Append(q, NewQueueItem(Head(cands).match_id, now, priority)),
                Tail(cands), priority, now + 1)

\* for match in filtered_matches: if not stored: add_match(match_id, priority)
EnqueueCandidates(cands, priority) ==
    LET new == Unstored(filter_matches(cands, clock), matches)
    IN  /\ Len(queue) + Len(new) <= MaxQueue
        /\ TimeLeft(Len(new))
        /\ queue' = AddAll(queue, new, priority, clock)
        /\ file' = IF new = <<>> THEN file ELSE save_queue(queue')
        /\ clock' = clock + Len(new)

\* the rows of a SELECT without ORDER BY on players, whose primary key
\* account_id is the rowid: by ascending account_id
RECURSIVE InRowidOrder(_)
InRowidOrder(S) ==
    IF S = {} THEN <<>>
    ELSE LET a == CHOOSE x \in S : \A y \in S : x <= y
         IN  <<a>> \o InRowidOrder(S \ {a})

\* MatchObserver.get_players(): [p.account_id for p in db.get_active_players()]
get_players == InRowidOrder(get_active_players(players))

\* where run() is after a drain: in check_new_matches, or, no player to loop
\* over, in the polling sleep
AfterDrain == IF get_players = <<>> THEN "sleeping" ELSE "discovering"

\* where run() is after its start: in initialize_detail_queue, or, no player
\* to loop over, in process_detail_queue
AfterStart == IF get_players = <<>> THEN "draining" ELSE "bootstrapping"

\* the player_info get_player_info returns during a run of the observer
RemoteProfile == "p"

\* update_player_profile without the test of last_profile_update
observer_update_player_profile_always(ps, account_id, now, read, fetch, player_info) ==
    IF read = "error" THEN [players |-> ps, result |-> "failed", fetched |-> FALSE, raised |-> FALSE]
    ELSE IF ps[account_id] = <<>>
    THEN [players |-> ps, result |-> "no player", fetched |-> FALSE, raised |-> FALSE]
    ELSE IF fetch = "error"
    THEN [players |-> ps, result |-> "failed", fetched |-> TRUE, raised |-> FALSE]
    ELSE [players |-> update_player_profile(ps, account_id, player_info, now),
          result |-> "updated", fetched |-> TRUE, raised |-> FALSE]

\* MatchObserver.update_player_profile(account_id) at time now.  read is how
\* get_player and the comparison of the timestamps end, fetch how
\* get_player_info and the write end.  fetched: get_player_info was called;
\* raised: an exception left the method (none does: except Exception logs it).
observer_update_player_profile(ps, account_id, now, read, fetch, player_info) ==
    IF read = "error" THEN [players |-> ps, result |-> "failed", fetched |-> FALSE, raised |-> FALSE]
    ELSE IF ps[account_id] = <<>>
    THEN [players |-> ps, result |-> "no player", fetched |-> FALSE, raised |-> FALSE]
    ELSE IF /\ ps[account_id][1].last_profile_update # <<>>
            /\ now - ps[account_id][1].last_profile_update[1] < PROFILE_UPDATE_INTERVAL
    THEN [players |-> ps, result |-> "not due", fetched |-> FALSE, raised |-> FALSE]
    ELSE IF fetch = "error"
    THEN [players |-> ps, result |-> "failed", fetched |-> TRUE, raised |-> FALSE]
    ELSE [players |-> update_player_profile(ps, account_id, player_info, now),
          result |-> "updated", fetched |-> TRUE, raised |-> FALSE]

----------------------------------------------------------------------------
(* MatchObserver.run: Bootstrapping once, then process_detail_queue,        *)
(* check_new_matches and the polling sleep, for ever.                       *)

\* one player of initialize_detail_queue: initialize_player(Head(todo)):
\* get_player_info, db.add_player, get_player_matches, add_match.  An API
\* error is re-raised and ends initialize_detail_queue.
initialize_player(info, list, ages) ==
    /\ pc = "bootstrapping"
    /\ todo # <<>>
    /\ IF info = "ok" /\ list = "ok"
       THEN /\ EnqueueCandidates(PlayerMatchList(ages, 1, clock), 1)
            /\ todo' = Tail(todo)
            /\ last' = Report("initialize_player", <<InWindow(ages)>>, "ok")
       ELSE /\ todo' = <<>>
            /\ last' = Report("initialize_player", <<>>, "raised")
            /\ UNCHANGED <<queue, file, clock>>
    /\ players' = IF info = "ok" THEN add_player(players, Head(todo), RemoteProfile)
                  ELSE players
    /\ pc' = IF todo' = <<>> THEN "draining" ELSE pc
    /\ UNCHANGED <<item, dropped, matches, player_matches, apivars>>

\* process_detail_queue: item = get_next_match(); if not item: break
dequeue ==
    /\ pc = "draining"
    /\ item = <<>>
    /\ get_next_match
    /\ last' = Report("get_next_match", item', IF item' = <<>> THEN "None" ELSE "item")
    /\ pc' = IF item' = <<>> THEN AfterDrain ELSE pc
    /\ todo' = IF item' = <<>> THEN get_players ELSE todo
    /\ UNCHANGED <<file, clock, dropped, dbvars, apivars>>

\* process_match without the except MatchNotFoundError clause
ProcessOutcome_generic(stored, fetch, error) ==
    IF stored THEN "already stored"
    ELSE IF fetch = "not_found" THEN "transient"
    ELSE IF fetch # "ok" THEN fetch
    ELSE IF error = "none" THEN "stored"
    ELSE "store failed"

\* process_match(item.match_id) when is_match_stored answers: how it ends
ProcessOutcome(stored, fetch, error) ==
    IF stored THEN "already stored"
    ELSE IF fetch = "not_found" THEN "not found"
    ELSE IF fetch # "ok" THEN fetch
    ELSE IF error = "none" THEN "stored"
    ELSE "store failed"

\* the level process_match logs its outcome at: logger.info("Stored match"),
\* logger.warning("Match ... not found"), logger.error("Error processing match")
LogLevel(result) ==
    IF result = "already stored" THEN "none"
    ELSE IF result = "stored" THEN "info"
    ELSE IF result = "not found" THEN "warning"
    ELSE "error"

\* process_detail_queue with the try block around the while loop: the first
\* exception of process_match ends the drain
process_match_abort(dbRead, fetch, data, accounts, failAt) ==
    /\ pc = "draining"
    /\ item # <<>>
    /\ LET it == item[1]
           stored == is_match_stored(matches, it.match_id)
           r == store_match(matches, player_matches, MatchRow(it.match_id, data),
                            PlayerMatches(it.match_id, accounts), failAt)
       IN  IF dbRead = "error"
           THEN /\ it.retry_count < max_retries => TimeLeft(1)
                /\ retry_match(it)
                /\ last' = Report("process_match", item, "raised")
                /\ UNCHANGED dbvars
           ELSE /\ IF ~stored /\ fetch = "ok"
                   THEN /\ matches' = r.matches
                        /\ player_matches' = r.player_matches
                        /\ players' = players
                   ELSE UNCHANGED dbvars
                /\ last' = Report("process_match", item,
                                  ProcessOutcome(stored, fetch, r.error))
                /\ UNCHANGED <<queue, file, clock, dropped>>
    /\ item' = <<>>
    /\ pc' = IF dbRead = "error" THEN AfterDrain ELSE pc
    /\ todo' = IF dbRead = "error" THEN get_players ELSE todo
    /\ UNCHANGED apivars

\* process_detail_queue: process_match(item.match_id), and retry_match(item)
\* when it raises.  process_match raises only where is_match_stored does
\* (dbRead = "error"): its own try block catches everything after that.
\* fetch is how the try block ends before store_match: with one of
\* FetchOutcomes, or, the detail fetched, with the TypeError of Match(...)
\* (lobby_type_name is no field of models.Match as it stands).
process_match(dbRead, fetch, data, accounts, failAt) ==
    /\ pc = "draining"
    /\ item # <<>>
    /\ LET it == item[1]
           stored == is_match_stored(matches, it.match_id)
           r == store_match(matches, player_matches, MatchRow(it.match_id, data),
                            PlayerMatches(it.match_id, accounts), failAt)
       IN  IF dbRead = "error"
           THEN /\ it.retry_count < max_retries => TimeLeft(1)
                /\ retry_match(it)
                /\ last' = Report("process_match", item, "raised")
                /\ UNCHANGED dbvars
           ELSE /\ IF ~stored /\ fetch = "ok"
                   THEN /\ matches' = r.matches
                        /\ player_matches' = r.player_matches
                        /\ players' = players
                   ELSE UNCHANGED dbvars
                /\ last' = Report("process_match", item,
                                  ProcessOutcome(stored, fetch, r.error))
                /\ UNCHANGED <<queue, file, clock, dropped>>
    /\ item' = <<>>
    /\ UNCHANGED <<runvars, apivars>>

\* check_new_matches without its try block: the error of get_player_matches
\* reaches run(), whose except clause is outside the while loop
check_new_matches_uncaught(list, ages) ==
    /\ pc = "discovering"
    /\ todo # <<>>
    /\ IF list = "ok"
       THEN /\ EnqueueCandidates(PlayerMatchList(ages, 1, clock), 2)
            /\ todo' = Tail(todo)
            /\ last' = Report("check_new_matches", <<InWindow(ages)>>, "ok")
       ELSE /\ todo' = <<>>
            /\ last' = Report("check_new_matches", <<>>, "raised")
            /\ UNCHANGED <<queue, file, clock>>
    /\ players' \in {observer_update_player_profile(players, Head(todo), clock, read,
                                                      fetch, RemoteProfile).players :
                           read \in {"ok", "error"}, fetch \in {"ok", "error"}}
    /\ pc' = IF list # "ok" THEN "stopped" ELSE IF todo' = <<>> THEN "sleeping" ELSE pc
    /\ UNCHANGED <<item, dropped, matches, player_matches, apivars>>

\* one player of check_new_matches.  update_player_profile writes the profile
\* when it is due and catches its own errors; an error of get_player_matches
\* ends check_new_matches.
check_new_matches(list, ages) ==
    /\ pc = "discovering"
    /\ todo # <<>>
    /\ IF list = "ok"
       THEN /\ EnqueueCandidates(PlayerMatchList(ages, 1, clock), 2)
            /\ todo' = Tail(todo)
            /\ last' = Report("check_new_matches", <<InWindow(ages)>>, "ok")
       ELSE /\ todo' = <<>>
            /\ last' = Report("check_new_matches", <<>>, "raised")
            /\ UNCHANGED <<queue, file, clock>>
    /\ players' \in {observer_update_player_profile(players, Head(todo), clock, read,
                                                      fetch, RemoteProfile).players :
                           read \in {"ok", "error"}, fetch \in {"ok", "error"}}
    /\ pc' = IF todo' = <<>> THEN "sleeping" ELSE pc
    /\ UNCHANGED <<item, dropped, matches, player_matches, apivars>>

\* await asyncio.sleep(POLLING_INTERVAL)
sleep ==
    /\ pc = "sleeping"
    /\ pc' = "draining"
    /\ last' = Report("sleep", <<>>, "none")
    /\ UNCHANGED <<qvars, dropped, dbvars, todo, apivars>>

\* the process is killed and started again: MatchObserver.__init__, run
restart ==
    /\ queue' = load_queue(file)
    /\ item' = <<>>
    /\ pc' = AfterStart
    /\ todo' = get_players
    /\ last' = Report("restart", <<>>, "none")
    /\ UNCHANGED <<file, clock, dropped, dbvars, apivars>>

Outcomes == {"ok", "error"}

\* the details the remote serves during a run: one payload; one player, or two
\* players without account_id
RemoteData == {"a"}
RemotePlayers == {<<1>>, <<0, 0>>}

\* what the remote says of each match in one response: the matches of S
\* inside the window, the others all not listed, all old or all undated
Listings ==
    {[m \in MatchIds |-> IF m \in S THEN "recent" ELSE other] :
        S \in SUBSET MatchIds, other \in Ages \ {"recent"}}

NoListing == [m \in MatchIds |-> "absent"]

Next ==
    \/ \E ages \in Listings : initialize_player("ok", "ok", ages)
    \/ \E info \in Outcomes : initialize_player(info, "error", NoListing)
    \/ initialize_player("error", "ok", NoListing)
    \/ dequeue
    \/ process_match("error", "ok", "a", <<>>, 0)
    \/ \E fetch \in FetchOutcomes \ {"ok"} : process_match("ok", fetch, "a", <<>>, 0)
    \/ process_match("ok", "TypeError", "a", <<>>, 0)
    \/ \E data \in RemoteData, accounts \in RemotePlayers :
           \E failAt \in 0 .. Len(accounts) + 1 :
               process_match("ok", "ok", data, accounts, failAt)
    \/ \E ages \in Listings : check_new_matches("ok", ages)
    \/ check_new_matches("error", NoListing)
    \/ sleep
    \/ restart

Spec == Init /\ [][Next]_vars

----------------------------------------------------------------------------
(* SpecRun: one run of MatchObserver.run, from the start of the process,    *)
(* that is not killed.                                                      *)

NextRun ==
    \/ \E ages \in Listings : initialize_player("ok", "ok", ages)
    \/ \E info \in Outcomes : initialize_player(info, "error", NoListing)
    \/ initialize_player("error", "ok", NoListing)
    \/ dequeue
    \/ process_match("error", "ok", "a", <<>>, 0)
    \/ \E fetch \in FetchOutcomes \ {"ok"} : process_match("ok", fetch, "a", <<>>, 0)
    \/ process_match("ok", "TypeError", "a", <<>>, 0)
    \/ \E data \in RemoteData, accounts \in RemotePlayers :
           \E failAt \in 0 .. Len(accounts) + 1 :
               process_match("ok", "ok", data, accounts, failAt)
    \/ \E ages \in Listings : check_new_matches("ok", ages)
    \/ check_new_matches("error", NoListing)
    \/ sleep

SpecRun == Init /\ [][NextRun]_vars

\* one turn of the while loop of process_detail_queue
DrainStep ==
    \/ dequeue
    \/ \E dbRead \in Outcomes, fetch \in FetchOutcomes \cup {"TypeError"} :
           \E data \in RemoteData, accounts \in RemotePlayers :
               \E failAt \in 0 .. Len(accounts) + 1 :
                   process_match(dbRead, fetch, data, accounts, failAt)

\* the loop has no await but the API call, which answers or times out, and
\* nothing else runs in the task: a turn that can be taken is taken
SpecRunFair == SpecRun /\ WF_vars(DrainStep)

\* run() is one task: between two of its steps there is only an API call that
\* answers or times out, or a sleep of a fixed length
SpecLoopFair == SpecRun /\ WF_vars(NextRun)

----------------------------------------------------------------------------
(* SpecRoster: the observer, killed and started again at any time, while an *)
(* operator removes and adds monitored players through the same database.   *)

NextRoster ==
    \/ \E ages \in Listings : initialize_player("ok", "ok", ages)
    \/ \E info \in Outcomes : initialize_player(info, "error", NoListing)
    \/ initialize_player("error", "ok", NoListing)
    \/ dequeue
    \/ process_match("ok", "ok", "a", <<1>>, 0)
    \/ \E ages \in Listings : check_new_matches("ok", ages)
    \/ check_new_matches("error", NoListing)
    \/ sleep
    \/ restart
    \/ \E a \in AccountIds : CallRemovePlayer(a)
    \/ \E a \in AccountIds : CallAddPlayer(a, RemoteProfile)

SpecRoster == Init /\ [][NextRoster]_vars

----------------------------------------------------------------------------
(* observer/api.py: how DotaAPI turns a response into a return or a raise.  *)
(* A result is "returned" or the class of the exception that leaves the     *)
(* method.                                                                  *)

\* response.status; 0 stands for no response (aiohttp.ClientError)
Statuses == {0, 200, 204, 301, 400, 403, 404, 429, 500, 503}

\* the body of a response: the JSON the method expects; valid JSON that is
\* empty ({} or []); valid JSON without "result"; valid JSON whose result has
\* no "data"; text that is not JSON
Bodies == {"well_formed", "empty", "missing_result", "missing_data", "not_json"}

\* DotaAPI.get_player_info
get_player_info(status, body) ==
    IF status = 0 THEN "DotaAPIError"
    ELSE IF status = 404 THEN "DotaAPIError"
    ELSE IF status = 429 THEN "RateLimitError"
    ELSE IF status # 200 THEN "DotaAPIError"
    ELSE IF body = "not_json" THEN "DotaAPIError"
    ELSE IF body = "empty" THEN "DotaAPIError"
    ELSE "returned"

\* DotaAPI.get_player_matches
get_player_matches(status, body) ==
    IF status = 0 THEN "DotaAPIError"
    ELSE IF status = 429 THEN "RateLimitError"
    ELSE IF status # 200 THEN "DotaAPIError"
    ELSE IF body = "not_json" THEN "JSONDecodeError"
    ELSE "returned"

\* DotaAPI.get_match_details
get_match_details(status, body) ==
    IF status = 0 THEN "DotaAPIError"
    ELSE IF status = 404 THEN "MatchNotFoundError"
    ELSE IF status # 200 THEN "DotaAPIError"
    ELSE IF body = "not_json" THEN "JSONDecodeError"
    ELSE IF body \in {"empty", "missing_result"} THEN "DotaAPIError"
    ELSE IF body = "missing_data" THEN "KeyError"
    ELSE "returned"

ApiMethods == {"get_player_info", "get_player_matches", "get_match_details"}

----------------------------------------------------------------------------
(* SpecApi: any sequence of calls of the three methods of one DotaAPI, each *)
(* answered with any status and body.                                       *)

CallGetPlayerInfo(status, body) ==
    /\ last' = Report("get_player_info", <<status, body>>, get_player_info(status, body))
    /\ UNCHANGED <<qvars, dropped, dbvars, runvars, apivars>>

CallGetPlayerMatches(status, body) ==
    /\ last' = Report("get_player_matches", <<status, body>>,
                      get_player_matches(status, body))
    /\ UNCHANGED <<qvars, dropped, dbvars, runvars, apivars>>

CallGetMatchDetails(status, body) ==
    /\ last' = Report("get_match_details", <<status, body>>,
                      get_match_details(status, body))
    /\ UNCHANGED <<qvars, dropped, dbvars, runvars, apivars>>

NextApi ==
    \/ \E status \in Statuses, body \in Bodies : CallGetPlayerInfo(status, body)
    \/ \E status \in Statuses, body \in Bodies : CallGetPlayerMatches(status, body)
    \/ \E status \in Statuses, body \in Bodies : CallGetMatchDetails(status, body)

SpecApi == Init /\ [][NextApi]_vars

----------------------------------------------------------------------------
(* SpecPacing: any sequence of requests through one DotaAPI, with time      *)
(* passing between them.  Instants are in tenths of a second.               *)

\* DotaAPI.min_request_interval: 0.5 s
min_request_interval == 5

\* the wall clock runs this many tenths of a second
MaxWall == 14

\* how long a response takes to arrive, in tenths of a second
Latencies == {1, 3}

\* the statuses requests are answered with: no response, 200, 429
PacingStatuses == {0, 200, 429}

\* DotaAPI._rate_limit entered at instant t: how long it sleeps, and the
\* last_request_time it leaves
rate_limit(t, last_time) ==
    [slept |-> IF t - last_time < min_request_interval THEN min_request_interval ELSE 0,
     last_request_time |-> t]

\* the result of the method for a response
Classify(method, status, body) ==
    IF method = "get_player_info" THEN get_player_info(status, body)
    ELSE IF method = "get_player_matches" THEN get_player_matches(status, body)
    ELSE get_match_details(status, body)

\* the instant the request before this one went out: <<>> if there was none
PreviousRequest == IF last.op = "request" THEN <<last.arg[1]>> ELSE <<>>

\* one call of get_player_info, get_player_matches or get_match_details:
\* await self._rate_limit(), the request, the response after latency
Request(method, status, latency) ==
    LET r == rate_limit(wall, last_request_time)
        issued == wall + r.slept
    IN  /\ issued + latency <= 10 * Epoch + MaxWall
        /\ last_request_time' = r.last_request_time
        /\ wall' = issued + latency
        /\ last' = Report("request", <<issued, PreviousRequest, method>>,
                          Classify(method, status, "well_formed"))
        /\ UNCHANGED <<qvars, dropped, dbvars, runvars>>

\* a tenth of a second passes between two calls
Elapse ==
    /\ wall < 10 * Epoch + MaxWall
    /\ wall' = wall + 1
    /\ UNCHANGED <<qvars, dropped, dbvars, runvars, last_request_time, last>>

NextPacing ==
    \/ \E method \in ApiMethods, status \in PacingStatuses, latency \in Latencies :
           Request(method, status, latency)
    \/ Elapse

SpecPacing == Init /\ [][NextPacing]_vars

----------------------------------------------------------------------------
(* SpecFilter: filter_matches called on lists of candidates                 *)

MaxList == 3

\* time.time() at the call
Nows == {Epoch, Epoch + Day}

\* the start_time of a candidate: none, 91 days ago, one second outside the
\* window, exactly 90 days ago, 89 days ago
StartTimes(now) ==
    {<<>>, <<now - 91 * Day>>, <<now - 90 * Day - 1>>, <<now - 90 * Day>>,
     <<now - 89 * Day>>}

\* the lists get_player_matches returns: distinct matches, each with one of
\* the start times
CandidateLists(now) ==
    UNION {{[i \in 1 .. n |-> [match_id |-> i, start_time |-> t[i]]] :
               t \in [1 .. n -> StartTimes(now)]} : n \in 0 .. MaxList}

\* filtered_matches = self.filter_matches(matches)
CallFilterMatches(ms, now) ==
    /\ last' = Report("filter_matches", <<ms, now>>, filter_matches(ms, now))
    /\ UNCHANGED <<qvars, dropped, dbvars, runvars, apivars>>

NextFilter == \E now \in Nows : \E ms \in CandidateLists(now) : CallFilterMatches(ms, now)

SpecFilter == Init /\ [][NextFilter]_vars

----------------------------------------------------------------------------
(* SpecProfile: the turns of the loop of check_new_matches for one           *)
(* participant known from the start and one added later, over hours.        *)

MaxHours == 2

\* datetime.now() at the turns: on the hour, one polling interval after it,
\* one second before the next
Instants ==
    {Epoch + h * PROFILE_UPDATE_INTERVAL + d :
        h \in 0 .. MaxHours - 1, d \in {0, POLLING_INTERVAL, PROFILE_UPDATE_INTERVAL - 1}}
    \cup {Epoch + MaxHours * PROFILE_UPDATE_INTERVAL}

ProfileAccounts == {1, Newcomer}

\* one turn of the loop: update_player_profile(player_id), then
\* get_player_matches(player_id, limit=50) unless an exception came out of it
check_player(account_id, read, fetch, player_info, list) ==
    LET r == observer_update_player_profile(players, account_id, clock, read, fetch,
                                            player_info)
    IN  /\ players' = r.players
        /\ last' = Report("check_player", <<account_id, clock>>,
                          [refresh |-> r.result, fetched |-> r.fetched,
                           listed |-> IF r.raised THEN "skipped" ELSE list])
        /\ UNCHANGED <<qvars, dropped, matches, player_matches, runvars, apivars>>

\* time passes between two turns
Advance ==
    /\ \E t \in Instants : t > clock /\ clock' = t
    /\ last' = Report("sleep", <<>>, "none")
    /\ UNCHANGED <<queue, file, item, dropped, dbvars, runvars, apivars>>

NextProfile ==
    \/ \E a \in ProfileAccounts, read \in {"ok", "error"}, fetch \in {"ok", "error"} :
           \E info \in Profiles, list \in {"ok", "error"} :
               check_player(a, read, fetch, info, list)
    \/ \E info \in Profiles : CallAddPlayer(Newcomer, info)
    \/ Advance

SpecProfile == Init /\ [][NextProfile]_vars

----------------------------------------------------------------------------
(* observer/db_api.py: DatabaseAPI.  The read calls are functions of the    *)
(* rows of matches m, json_each(m.match_data, '$.players'): one row, a      *)
(* game, for each player of each stored match.                              *)

MaxStored == 11

\* the page size test_api expects of get_player_matches without a limit
PageSize == 10

Game(match_id, start_time, account_id, player_slot, radiant_win) ==
    [match_id |-> match_id, start_time |-> start_time, account_id |-> account_id,
     player_slot |-> player_slot, radiant_win |-> radiant_win]

\* how the stored matches ended
WinPatterns == {"radiant", "alternate"}

\* n stored matches, one a day: account 1 plays radiant in each, account 2
\* plays dire in the even ones
StoredGames(n, pattern) ==
    {Game(i, Epoch + i * Day, 1, 0, pattern = "radiant" \/ i % 2 = 1) : i \in 1 .. n}
    \cup {Game(i, Epoch + i * Day, 2, 128, pattern = "radiant" \/ i % 2 = 1) :
              i \in {j \in 1 .. n : j % 2 = 0}}

\* the numbers of stored matches the calls are made on
StoreSizes == {0, 2, MaxStored}

\* the account_id arguments: <<type, value>>
AccountArgs == {<<"int", 0>>, <<"int", 1>>, <<"int", 2>>, <<"str", 1>>, <<"NoneType", 0>>}

\* Optional[int] arguments
StartArgs == {<<>>, <<Epoch + 2 * Day>>}
LimitArgs == {<<>>, <<0>>, <<2>>}
OffsetArgs == {<<>>, <<0 - 1>>, <<1>>}

\* DatabaseAPI._validate_account_id
validate_account_id(account_id) ==
    IF account_id[1] # "int" THEN "ValueError"
    ELSE IF account_id[2] <= 0 THEN "ValueError"
    ELSE "none"

\* _validate_pagination with < for <= : limit 0 passes
validate_pagination_nonnegative(limit, offset) ==
    IF limit # <<>> /\ limit[1] < 0 THEN "ValueError"
    ELSE IF offset # <<>> /\ offset[1] < 0 THEN "ValueError"
    ELSE "none"

\* DatabaseAPI._validate_pagination
validate_pagination(limit, offset) ==
    IF limit # <<>> /\ limit[1] <= 0 THEN "ValueError"
    ELSE IF offset # <<>> /\ offset[1] < 0 THEN "ValueError"
    ELSE "none"

\* ORDER BY m.start_time DESC
RECURSIVE OrderByStartTimeDesc(_)
OrderByStartTimeDesc(gs) ==
    IF gs = {} THEN <<>>
    ELSE LET g == CHOOSE x \in gs : \A y \in gs : y.start_time <= x.start_time
         IN  <<g>> \o OrderByStartTimeDesc(gs \ {g})

\* LIMIT ? OFFSET ? on the ordered rows; absent clauses take everything
Page(rows, limit, offset) ==
    LET from == IF offset = <<>> THEN 1 ELSE offset[1] + 1
        upto == IF limit = <<>> THEN Len(rows)
                ELSE IF from + limit[1] - 1 < Len(rows) THEN from + limit[1] - 1
                ELSE Len(rows)
    IN  SubSeq(rows, from, upto)

\* the Match get_player_matches builds from a row: players=[player], the
\* MatchPlayer of the requested account
MatchOf(g, account_id) == [match_id |-> g.match_id, players |-> <<account_id>>]

NoAnswer(raised, queried) ==
    [raised |-> raised, queried |-> queried, total |-> 0, matches |-> <<>>]

\* DatabaseAPI.get_player_matches(account_id, start_time, limit, offset) on
\* the stored games gs.  OFFSET without LIMIT is no SQLite statement:
\* execute raises OperationalError.
get_stored_player_matches(gs, account_id, start_time, limit, offset) ==
    IF validate_account_id(account_id) # "none" THEN NoAnswer("ValueError", FALSE)
    ELSE IF validate_pagination(limit, offset) # "none" THEN NoAnswer("ValueError", FALSE)
    ELSE IF limit = <<>> /\ offset # <<>> THEN NoAnswer("OperationalError", TRUE)
    ELSE LET mine == {g \in gs : /\ g.account_id = account_id[2]
                                 /\ start_time # <<>> => g.start_time >= start_time[1]}
             rows == Page(OrderByStartTimeDesc(mine), limit, offset)
         IN  [raised |-> "none", queried |-> TRUE, total |-> Cardinality(mine),
              matches |-> [i \in 1 .. Len(rows) |-> MatchOf(rows[i], account_id[2])]]

\* DatabaseAPI.get_player_matches_filtered with game_mode and hero_id None:
\* the same validation and the same two queries
get_player_matches_filtered(gs, account_id, start_time, limit, offset) ==
    get_stored_player_matches(gs, account_id, start_time, limit, offset)

\* the CASE of stats_query: the player's side won
Won(g) == (g.player_slot < 128 /\ g.radiant_win) \/ (g.player_slot >= 128 /\ ~g.radiant_win)

\* DatabaseAPI.get_player_stats(account_id, start_time).  stats_query has the
\* one placeholder of account_id; with a start_time params holds two values
\* and execute raises ProgrammingError (incorrect number of bindings).
get_player_stats(gs, account_id, start_time) ==
    IF validate_account_id(account_id) # "none"
    THEN [raised |-> "ValueError", queried |-> FALSE,
          total_matches |-> 0, wins |-> 0, losses |-> 0]
    ELSE IF start_time # <<>>
    THEN [raised |-> "ProgrammingError", queried |-> TRUE,
          total_matches |-> 0, wins |-> 0, losses |-> 0]
    ELSE LET mine == {g \in gs : g.account_id = account_id[2]}
             wins == Cardinality({g \in mine : Won(g)})
         IN  [raised |-> "none", queried |-> TRUE, total_matches |-> Cardinality(mine),
              wins |-> wins, losses |-> Cardinality(mine) - wins]

\* DatabaseAPI.add_player(account_id, player_info)
ApiAddPlayer(account_id, player_info) ==
    /\ IF validate_account_id(account_id) # "none"
       THEN /\ last' = Report("api_add_player", <<account_id, <<>>, <<>>, <<>>, {}>>,
                              [raised |-> "ValueError", queried |-> FALSE])
            /\ UNCHANGED players
       ELSE /\ last' = Report("api_add_player", <<account_id, <<>>, <<>>, <<>>, {}>>,
                              [raised |-> "none", queried |-> TRUE])
            /\ players' = add_player(players, account_id[2], player_info)
    /\ UNCHANGED <<qvars, dropped, matches, player_matches, runvars, apivars>>

\* DatabaseAPI.remove_player(account_id)
ApiRemovePlayer(account_id) ==
    /\ IF validate_account_id(account_id) # "none"
       THEN /\ last' = Report("api_remove_player", <<account_id, <<>>, <<>>, <<>>, {}>>,
                              [raised |-> "ValueError", queried |-> FALSE])
            /\ UNCHANGED players
       ELSE /\ last' = Report("api_remove_player", <<account_id, <<>>, <<>>, <<>>, {}>>,
                              [raised |-> "none", queried |-> TRUE])
            /\ players' = remove_player(players, account_id[2])
    /\ UNCHANGED <<qvars, dropped, matches, player_matches, runvars, apivars>>

\* DatabaseAPI.get_player_matches on a database that holds n matches
ApiGetPlayerMatches(n, account_id, start_time, limit, offset) ==
    /\ LET gs == StoredGames(n, "alternate")
       IN  last' = Report("api_get_player_matches",
                          <<account_id, start_time, limit, offset, gs>>,
                          get_stored_player_matches(gs, account_id, start_time, limit, offset))
    /\ UNCHANGED <<qvars, dropped, dbvars, runvars, apivars>>

\* DatabaseAPI.get_player_matches_filtered on a database that holds n matches
ApiGetPlayerMatchesFiltered(n, account_id, limit, offset) ==
    /\ LET gs == StoredGames(n, "alternate")
       IN  last' = Report("api_get_player_matches_filtered",
                          <<account_id, <<>>, limit, offset, gs>>,
                          get_player_matches_filtered(gs, account_id, <<>>, limit, offset))
    /\ UNCHANGED <<qvars, dropped, dbvars, runvars, apivars>>

\* DatabaseAPI.get_player_stats on a database that holds n matches
ApiGetPlayerStats(n, pattern, account_id, start_time) ==
    /\ LET gs == StoredGames(n, pattern)
       IN  last' = Report("api_get_player_stats", <<account_id, start_time, <<>>, <<>>, gs>>,
                          get_player_stats(gs, account_id, start_time))
    /\ UNCHANGED <<qvars, dropped, dbvars, runvars, apivars>>

NextDbApi ==
    \/ \E a \in AccountArgs : ApiAddPlayer(a, "p")
    \/ \E a \in AccountArgs : ApiRemovePlayer(a)
    \/ \E n \in StoreSizes, a \in AccountArgs, t \in StartArgs :
           \E limit \in LimitArgs, offset \in OffsetArgs :
               ApiGetPlayerMatches(n, a, t, limit, offset)
    \/ \E n \in StoreSizes, a \in AccountArgs, limit \in LimitArgs, offset \in OffsetArgs :
           ApiGetPlayerMatchesFiltered(n, a, limit, offset)
    \/ \E n \in StoreSizes, pattern \in WinPatterns, a \in AccountArgs, t \in StartArgs :
           ApiGetPlayerStats(n, pattern, a, t)

SpecDbApi == Init /\ [][NextDbApi]_vars

----------------------------------------------------------------------------
(* Properties                                                               *)

InQueue(q, it) == \E i \in 1 .. Len(q) : JobOf(q[i]) = JobOf(it)

\* the order the specification gives dequeueNext: a is served no later than b
ServedBefore(a, b) ==
    \/ a.priority > b.priority
    \/ a.priority = b.priority /\ a.retry_count < b.retry_count
    \/ a.priority = b.priority /\ a.retry_count = b.retry_count /\ a.added_at <= b.added_at

\* C1: the item get_next_match returns has the highest priority of the queued
\* jobs, among those the fewest retries, among those the earliest added_at.
C1_HighestPriorityFirst ==
    (last.op = "get_next_match" /\ item # <<>>)
        => \A i \in 1 .. Len(queue) : ServedBefore(item[1], queue[i])

FetchFailures == {"rate_limited", "transient", "malformed"}

\* C2: when the detail fetch of a dequeued job fails (transient, malformed,
\* rate limited) and its retry_count was below max_retries, the job is back in
\* the queue with retry_count one higher.
C2_FailedFetchRequeues ==
    (/\ last.op = "process_match"
     /\ last.result \in FetchFailures
     /\ last.arg[1].retry_count < max_retries)
        => \E i \in 1 .. Len(queue) :
               /\ JobOf(queue[i]) = JobOf(last.arg[1])
               /\ queue[i].retry_count = last.arg[1].retry_count + 1

\* C3: a job that process_detail_queue took and that is not back in the queue
\* has its record stored, or its fetch answered NotFound, or its retry budget
\* exhausted.
C3_NoJobSilentlyLost ==
    (last.op = "process_match" /\ ~InQueue(queue, last.arg[1]))
        => \/ is_match_stored(matches, last.arg[1].match_id)
           \/ last.result = "not found"
           \/ last.arg[1].retry_count >= max_retries

\* C4: a job retry_match dropped (retry_count = max_retries) is never returned
\* by a later get_next_match.
C4_DroppedNeverReturned ==
    (last.op = "get_next_match" /\ item # <<>>) => JobOf(item[1]) \notin dropped

RetryCountInRange(it) == 0 <= it.retry_count /\ it.retry_count <= max_retries

\* C5: every job in the queue (and the one the caller holds) has
\* 0 <= retry_count <= max_retries; add_match creates a job with retry_count 0;
\* a retry_match that keeps the job raises its retry_count by exactly one; no
\* step lowers the retry_count of a job.
C5_RetryCountBounded ==
    /\ [](/\ \A i \in 1 .. Len(queue) : RetryCountInRange(queue[i])
          /\ item # <<>> => RetryCountInRange(item[1])
          /\ last.op = "add_match" => queue[Len(queue)].retry_count = 0
          /\ (last.op = "retry_match" /\ last.result = "requeued")
                 => /\ JobOf(queue[Len(queue)]) = JobOf(last.arg[1])
                    /\ queue[Len(queue)].retry_count = last.arg[1].retry_count + 1)
    /\ [][\A j \in 1 .. Len(queue') :
              /\ \A i \in 1 .. Len(queue) :
                     JobOf(queue[i]) = JobOf(queue'[j])
                         => queue'[j].retry_count >= queue[i].retry_count
              /\ (item # <<>> /\ JobOf(item[1]) = JobOf(queue'[j]))
                     => queue'[j].retry_count >= item[1].retry_count]_vars

\* a job was requeued up to the bound
C5_Witness ==
    /\ last.op = "retry_match"
    /\ last.result = "requeued"
    /\ queue[Len(queue)].retry_count = max_retries

\* C6: after every completed add_match, get_next_match and retry_match the
\* snapshot in the queue file is the in-memory queue.
C6_SnapshotCurrent ==
    last.op \in {"add_match", "get_next_match", "retry_match"}
        => load_queue(file) = queue

\* successive get_next_match calls on q: the items in the order they return
RECURSIVE DrainOrder(_)
DrainOrder(q) ==
    IF q = <<>> THEN <<>>
    ELSE <<Head(sorted(q))>> \o DrainOrder(Tail(sorted(q)))

\* the call that just completed wrote the snapshot
Saved == last.op = "add_match" \/ (last.op = "retry_match" /\ last.result = "requeued")

\* C7: a queue loaded from the file _save_queue wrote holds jobs with the same
\* match_id, added_at, priority, retry_count and last_retry as the saved queue,
\* and get_next_match returns them in the same order.
C7_SaveLoadRoundTrip ==
    Saved =>
        LET loaded == load_queue(file)
        IN  /\ Len(loaded) = Len(queue)
            /\ \A i \in 1 .. Len(queue) :
                   /\ loaded[i].match_id = queue[i].match_id
                   /\ loaded[i].added_at = queue[i].added_at
                   /\ loaded[i].priority = queue[i].priority
                   /\ loaded[i].retry_count = queue[i].retry_count
                   /\ loaded[i].last_retry = queue[i].last_retry
            /\ DrainOrder(loaded) = DrainOrder(queue)

\* the snapshot holds a job with retry_count 2 and a job with retry_count 0
C7_Witness ==
    /\ Saved
    /\ \E i, j \in 1 .. Len(file.items) :
           /\ Member(file.items[i], "retry_count") = JsonNumber(2)
           /\ Member(file.items[j], "retry_count") = JsonNumber(0)
           /\ Member(file.items[i], "last_retry") # JsonNull

\* C8: Bootstrapping after a restart adds no job with a lower retry counter
\* for a record id that is pending with retry counter r > 0.
C8_RestartKeepsRetryBudget ==
    [][last'.op = "initialize_player"
          => \A j \in (Len(queue) + 1) .. Len(queue') :
                 \A i \in 1 .. Len(queue) :
                     (queue[i].match_id = queue'[j].match_id /\ queue[i].retry_count > 0)
                         => queue'[j].retry_count >= queue[i].retry_count]_vars

RowsOf(rows, match_id) == SelectSeq(rows, LAMBDA r : r.match_id = match_id)

\* C9: the store never holds two match rows for one match id, and a
\* store_match for an id that is stored leaves its match row and its
\* player-match rows as the first call wrote them.
C9_StoreMatchIdempotent ==
    /\ [](\A m \in MatchIds : Len(RowsOf(matches, m)) <= 1)
    /\ [][\A m \in MatchIds :
              is_match_stored(matches, m)
                  => /\ RowsOf(matches', m) = RowsOf(matches, m)
                     /\ RowsOf(player_matches', m) = RowsOf(player_matches, m)]_vars

\* store_match was called again for a stored id, with other match data
C9_Witness ==
    /\ last.op = "store_match"
    /\ last.result = "IntegrityError"
    /\ \E i \in 1 .. Len(matches) :
           /\ matches[i].match_id = last.arg[1].match_id
           /\ matches[i].match_data # last.arg[1].match_data

\* C10: store_match for a match id that is already stored returns normally:
\* the uniqueness violation is not raised to the caller.
C10_DuplicateStoreIsSilent ==
    [][(last'.op = "store_match" /\ is_match_stored(matches, last'.arg[1].match_id))
          => last'.result # "IntegrityError"]_vars

\* C11: store_match is all-or-nothing.  No player-match row is ever visible
\* without its match row; a store_match that raises leaves both tables as they
\* were before the call (the match is stored after it only if it was before),
\* and a store_match that returns normally has inserted the match row.
C11_StoreMatchAllOrNothing ==
    /\ [](\A i \in 1 .. Len(player_matches) :
              is_match_stored(matches, player_matches[i].match_id))
    /\ [][last'.op = "store_match"
              => IF last'.result = "none"
                 THEN /\ ~is_match_stored(matches, last'.arg[1].match_id)
                      /\ is_match_stored(matches', last'.arg[1].match_id)
                 ELSE /\ matches' = matches
                      /\ player_matches' = player_matches]_vars

\* a player-match insert failed after the match row had gone in: the call
\* raised for a match id that is not stored
C11_Witness ==
    /\ last.op = "store_match"
    /\ last.result = "IntegrityError"
    /\ ~is_match_stored(matches, last.arg[1].match_id)
    /\ matches # <<>>

\* C12: when store_match fails for the job process_detail_queue took, the
\* tables hold no row of that match and the job is back in the queue
\* (retry_match was called: retry_count one higher).
C12_StoreFailureRequeues ==
    (/\ last.op = "process_match"
     /\ last.result = "store failed"
     /\ last.arg[1].retry_count < max_retries)
        => /\ ~is_match_stored(matches, last.arg[1].match_id)
           /\ RowsOf(player_matches, last.arg[1].match_id) = <<>>
           /\ \E i \in 1 .. Len(queue) :
                  /\ queue[i].match_id = last.arg[1].match_id
                  /\ queue[i].added_at = last.arg[1].added_at
                  /\ queue[i].retry_count = last.arg[1].retry_count + 1

\* the process_match that just ended got as far as get_match_details
FetchIssued(result) == result \notin {"already stored", "raised"}

\* C13: at-most-once durable write.  The store never holds two match rows for
\* one match id; a step adds a match row only for an id that had none; and a
\* process_match for an id that is stored issues no detail fetch and leaves
\* the tables alone.
C13_AtMostOnceWrite ==
    /\ [](\A m \in MatchIds : Len(RowsOf(matches, m)) <= 1)
    /\ [][/\ \A m \in MatchIds :
                 RowsOf(matches', m) # RowsOf(matches, m) => RowsOf(matches, m) = <<>>
          /\ (last'.op = "process_match" /\ RowsOf(matches, last'.arg[1].match_id) # <<>>)
                 => /\ ~FetchIssued(last'.result)
                    /\ matches' = matches
                    /\ player_matches' = player_matches]_vars

\* a job for a match id that is stored was dequeued and processed: the id was
\* enqueued more than once, or was still queued after a restart
C13_Witness ==
    /\ last.op = "process_match"
    /\ last.result = "already stored"
    /\ RowsOf(matches, last.arg[1].match_id) # <<>>

\* C14: the record store is append-only.  A match that is stored stays
\* stored; its match row and its player-match rows are after every step what
\* they were before it; and add_player, remove_player and
\* update_player_profile leave both tables as they are.
C14_AppendOnly ==
    [][/\ \A i \in 1 .. Len(matches) :
              /\ is_match_stored(matches', matches[i].match_id)
              /\ i <= Len(matches') /\ matches'[i] = matches[i]
       /\ \A i \in 1 .. Len(player_matches) :
              i <= Len(player_matches') /\ player_matches'[i] = player_matches[i]
       /\ last'.op \in {"add_player", "remove_player", "update_player_profile"}
              => matches' = matches /\ player_matches' = player_matches]_vars

\* a player of a stored match was removed, and the match is still stored with
\* its player-match row
C14_Witness ==
    /\ last.op = "remove_player"
    /\ ~players[last.arg[1]][1].active
    /\ \E i \in 1 .. Len(player_matches) :
           /\ player_matches[i].account_id = last.arg[1]
           /\ is_match_stored(matches, player_matches[i].match_id)

\* C15: end to end.  A job check_new_matches enqueued (priority 2) whose
\* detail the remote serves well-formed, with a database that accepts the
\* write, has its match stored when process_match returns.
C15_EndToEnd ==
    (/\ last.op = "process_match"
     /\ last.arg[1].priority = 2
     /\ last.result \notin ({"not found", "raised", "store failed"} \cup FetchFailures))
        => is_match_stored(matches, last.arg[1].match_id)

\* the match ids of the jobs a step appended to the queue
Enqueued(q, q2) == {q2[j].match_id : j \in (Len(q) + 1) .. Len(q2)}

\* the ids among listed that are not stored
Unseen(listed, ms) ==
    {m \in listed : ~(\E i \in 1 .. Len(ms) : ms[i].match_id = m)}

C17_NewBeforeBacklog ==
    (last.op = "get_next_match" /\ item # <<>> /\ item[1].priority = 1)
        => ~\E i \in 1 .. Len(queue) :
               /\ queue[i].priority = 2
               /\ queue[i].retry_count = item[1].retry_count

\* C18: a process_match whose detail fetch is answered 404 ends as not found,
\* logged at warning level; retry_match is not called (the queue, the
\* snapshot and the dropped jobs are as before, no entry of the job with a
\* higher retry_count), the tables are untouched, and the drain goes on to
\* its next get_next_match.
C18_NotFoundDropsJob ==
    [][(item # <<>> /\ ~is_match_stored(matches, item[1].match_id)
            /\ process_match("ok", "not_found", "a", <<>>, 0))
          => /\ last'.result = "not found"
             /\ LogLevel(last'.result) = "warning"
             /\ queue' = queue /\ file' = file /\ dropped' = dropped
             /\ ~InQueue(queue', item[1])
             /\ matches' = matches /\ player_matches' = player_matches
             /\ item' = <<>> /\ pc' = "draining"]_vars

\* a job ended as not found while another job waits in the queue
C18_Witness ==
    /\ last.op = "process_match"
    /\ last.result = "not found"
    /\ pc = "draining"
    /\ item = <<>>
    /\ queue # <<>>
    /\ ~InQueue(queue, last.arg[1])

\* C19: after a process_match whose detail fetch was answered 429, the drain
\* does not go straight to its next get_next_match: a suspension comes first.
C19_RateLimitSuspendsDrain ==
    [][(last.op = "process_match" /\ last.result = "rate_limited")
          => last'.op # "get_next_match"]_vars

\* a 200 whose body is not JSON, or lacks what the method reads from it
MalformedFor(method, body) ==
    \/ body = "not_json"
    \/ method = "get_match_details" /\ body \in {"empty", "missing_result", "missing_data"}
    \/ method = "get_player_info" /\ body = "empty"

\* C20: whichever of the three methods is called, status 404 raises the
\* not-found class, 429 raises RateLimitError, any other status outside 2xx
\* raises the generic DotaAPIError, and a 200 with a malformed body raises an
\* error of another class than the DotaAPIError a transient failure raises.
C20_FailureClassification ==
    last.op \in ApiMethods =>
        LET status == last.arg[1]
            body == last.arg[2]
        IN  /\ status = 404 => last.result = "MatchNotFoundError"
            /\ status = 429 => last.result = "RateLimitError"
            /\ (status >= 300 /\ status \notin {404, 429}) => last.result = "DotaAPIError"
            /\ (status = 200 /\ MalformedFor(last.op, body))
                   => last.result \notin {"returned", "DotaAPIError"}

\* C21: the instants at which two consecutive requests of one DotaAPI go out
\* are at least min_request_interval apart, whatever the earlier request
\* was answered.
C21_RequestsPaced ==
    (last.op = "request" /\ last.arg[2] # <<>>)
        => last.arg[1] - last.arg[2][1] >= min_request_interval

\* C22: Bootstrapping is never re-entered; a Draining phase begins only out
\* of a Discovering phase; the polling sleep begins only out of a Draining
\* phase and ends only into a Discovering phase.
C22_PhaseOrder ==
    [][/\ (pc # "bootstrapping") => (pc' # "bootstrapping")
       /\ (pc # "draining" /\ pc' = "draining") => pc = "discovering"
       /\ (pc # "sleeping" /\ pc' = "sleeping") => pc = "draining"
       /\ (pc = "sleeping" /\ pc' # "sleeping") => pc' = "discovering"]_vars

\* C23: when discovery raises for one participant, in Bootstrapping or in
\* Discovering, the participants after it in the same cycle are still to be
\* visited: only the failing participant leaves the cycle's list.
C23_ParticipantIsolation ==
    [][(pc \in {"bootstrapping", "discovering"} /\ last'.result = "raised")
           => todo' = Tail(todo)]_vars

\* C24: a job whose processing fails does not end the drain: after any
\* process_match step the drain goes on and every job that was waiting is
\* still waiting, in its place; the drain ends only on an empty queue.
C24_JobIsolation ==
    [][/\ (pc = "draining" /\ item # <<>>)
              => /\ pc' = "draining"
                 /\ Len(queue') >= Len(queue)
                 /\ \A i \in 1 .. Len(queue) : queue'[i] = queue[i]
       /\ (pc = "draining" /\ pc' # "draining") => (queue = <<>> /\ item = <<>>)]_vars

\* a job has just raised while another job is waiting, and the drain goes on
C24_Witness ==
    /\ last.op = "process_match"
    /\ last.result = "raised"
    /\ pc = "draining"
    /\ \E i \in 1 .. Len(queue) : queue[i].match_id # last.arg[1].match_id

\* the turns of the drain loop a job can still take: two for each attempt
\* it has left (the dequeue and the processing), one less once in hand
Attempts(it) == max_retries + 1 - it.retry_count

RECURSIVE Turns(_)
Turns(q) == IF q = <<>> THEN 0 ELSE 2 * Attempts(Head(q)) + Turns(Tail(q))

TurnsLeft == Turns(queue) + (IF item = <<>> THEN 0 ELSE 2 * Attempts(item[1]) - 1)

\* C25: a drain terminates, whatever the queue it starts on and however the
\* jobs end: every turn of its loop uses up one of finitely many turns left,
\* so the drain reaches its return, and it returns on an empty queue.
C25_DrainTerminates ==
    /\ [][(pc = "draining" /\ pc' = "draining")
              => (TurnsLeft' < TurnsLeft /\ TurnsLeft' >= 0)]_vars
    /\ [][(pc = "draining" /\ pc' # "draining") => queue' = <<>>]_vars
    /\ (pc = "draining") ~> (pc = "discovering" /\ queue = <<>> /\ item = <<>>)

\* a drain has returned after a job used up all its retries in it
C25_Witness ==
    /\ pc = "discovering"
    /\ queue = <<>>
    /\ last.op = "get_next_match"
    /\ dropped # {}



\* C26: the main loop is not stopped by the failure of a participant or of
\* a job: it comes to a Discovering phase again and again, for ever.
C26_DiscoveringRecurs == []<>(pc = "discovering" /\ todo = get_players)

\* a Discovering phase begins after every job enqueued so far has failed:
\* jobs were enqueued, none is stored, none is waiting
C26_Witness ==
    /\ pc = "discovering"
    /\ todo = get_players
    /\ clock > Epoch
    /\ queue = <<>>
    /\ matches = <<>>

\* a candidate started at or after the instant 90 days before now
StartedInWindow(m, now) == m.start_time # <<>> /\ m.start_time[1] >= now - 90 * Day

\* the positions of ms whose candidate started in the window
Accepted(ms, now) == {i \in DOMAIN ms : StartedInWindow(ms[i], now)}

\* the k-th accepted position of ms
NthAccepted(ms, now, k) ==
    CHOOSE i \in Accepted(ms, now) :
        Cardinality({j \in Accepted(ms, now) : j <= i}) = k

\* C27: filter_matches returns exactly the candidates that started at or
\* after now - 90 days, in the order of the list: one that started 89 days ago
\* or exactly 90 days ago is kept, one that started 91 days ago or has no
\* start_time is not.
C27_FilterWindow ==
    last.op = "filter_matches" =>
        LET ms == last.arg[1]
            now == last.arg[2]
            out == last.result
        IN  /\ Len(out) = Cardinality(Accepted(ms, now))
            /\ \A k \in DOMAIN out : out[k] = ms[NthAccepted(ms, now, k)]
            /\ \A i \in DOMAIN ms :
                   /\ ms[i].start_time = <<now - 89 * Day>>
                          => \E k \in DOMAIN out : out[k] = ms[i]
                   /\ ms[i].start_time \in {<<>>, <<now - 91 * Day>>}
                          => \A k \in DOMAIN out : out[k] # ms[i]

\* a list with a candidate on the edge of the window and one without
\* start_time: the first is returned, the second is not
C27_Witness ==
    /\ last.op = "filter_matches"
    /\ Len(last.arg[1]) = 2
    /\ last.arg[1][1].start_time = <<>>
    /\ last.arg[1][2].start_time = <<last.arg[2] - 90 * Day>>
    /\ last.result = <<last.arg[1][2]>>

\* C28: remove_player(id) is a soft delete: the row of id stays, with its
\* activity flag false and nothing else changed; every other row of players
\* and every row of matches and player_matches is as it was.
C28_RemoveIsSoftDelete ==
    [][last'.op = "remove_player" =>
          LET a == last'.arg[1]
          IN  /\ matches' = matches
              /\ player_matches' = player_matches
              /\ \A b \in PlayerKeys \ {a} : players'[b] = players[b]
              /\ players[a] = <<>> => players'[a] = <<>>
              /\ players[a] # <<>>
                     => players'[a] = <<[players[a][1] EXCEPT !.active = FALSE]>>]_vars

\* a participant with player-match rows has just been removed: its row is
\* there, inactive, and so are its player-match rows
C28_Witness ==
    /\ last.op = "remove_player"
    /\ players[last.arg[1]] # <<>>
    /\ ~players[last.arg[1]][1].active
    /\ \E i \in 1 .. Len(player_matches) : player_matches[i].account_id = last.arg[1]
    /\ \E b \in PlayerKeys \ {last.arg[1]} : players[b] # <<>> /\ players[b][1].active

C30_RefreshCadence ==
    [][last'.op = "check_player" =>
          LET a == last'.arg[1]
              now == last'.arg[2]
              res == last'.result
          IN  /\ res.fetched
                     => /\ players[a] # <<>>
                        /\ \/ players[a][1].last_profile_update = <<>>
                           \/ now - players[a][1].last_profile_update[1]
                                  >= PROFILE_UPDATE_INTERVAL
              /\ res.refresh = "updated"
                     => /\ res.fetched
                        /\ players'[a][1].last_profile_update = <<now>>
              /\ res.refresh # "updated" => players' = players
              /\ res.listed \in {"ok", "error"}]_vars

\* a second refresh of the participant refreshed at Epoch succeeds, an hour
\* or more later
C30_Witness ==
    /\ last.op = "check_player"
    /\ last.arg[1] = 1
    /\ last.result.refresh = "updated"
    /\ last.arg[2] >= Epoch + PROFILE_UPDATE_INTERVAL
    /\ players[1][1].last_profile_update = <<last.arg[2]>>

\* C31: when the write of the snapshot fails in add_match or retry_match, or
\* the read of it fails at construction, the call raises.
C31_StorageFailureSurfaced ==
    (last.op \in {"add_match", "retry_match", "construct"} /\ last.result.disk # "ok")
        => last.result.raised

\* C37: after the process died inside a queue mutation, the queue loaded on
\* the next start is the in-memory queue as it was just before the mutation
\* or as it was just after it.
C37_CrashSafeSnapshot ==
    last.op = "crash" => queue \in {last.arg[1], last.arg[2]}

\* the calls of DatabaseAPI that validate account_id, and those of them that
\* validate limit and offset
ValidatingCalls ==
    {"api_add_player", "api_remove_player", "api_get_player_matches",
     "api_get_player_stats", "api_get_player_matches_filtered"}

ListingCalls == {"api_get_player_matches", "api_get_player_matches_filtered"}

\* account_id is not an integer or is <= 0
BadAccount(account_id) == account_id[1] # "int" \/ account_id[2] <= 0

\* limit <= 0 or offset < 0
BadPage(limit, offset) ==
    (limit # <<>> /\ limit[1] <= 0) \/ (offset # <<>> /\ offset[1] < 0)

\* C32: a call of DatabaseAPI with an account_id that is not an integer or is
\* <= 0, and a listing call with limit <= 0 or offset < 0, raises ValueError
\* with no query issued and no table changed.
C32_ValidationRejects ==
    [][(/\ last'.op \in ValidatingCalls
        /\ \/ BadAccount(last'.arg[1])
           \/ last'.op \in ListingCalls /\ BadPage(last'.arg[3], last'.arg[4]))
           => /\ last'.result.raised = "ValueError"
              /\ ~last'.result.queried
              /\ UNCHANGED dbvars]_vars

\* a listing call for a valid account with stored matches was refused for
\* its limit alone
C32_Witness ==
    /\ last.op = "api_get_player_matches"
    /\ ~BadAccount(last.arg[1])
    /\ last.arg[3] = <<0>>
    /\ last.arg[4] = <<>>
    /\ last.arg[5] # {}
    /\ last.result.raised = "ValueError"

\* C33: get_player_stats(account_id, start_time=t) returns the statistics of
\* exactly the player's stored matches with start_time >= t, all of them
\* when start_time is omitted, with wins <= total_matches and
\* losses = total_matches - wins.
C33_StatsOverWindow ==
    (last.op = "api_get_player_stats" /\ ~BadAccount(last.arg[1])) =>
        LET mine == {g \in last.arg[5] :
                        /\ g.account_id = last.arg[1][2]
                        /\ last.arg[2] # <<>> => g.start_time >= last.arg[2][1]}
        IN  /\ last.result.raised = "none"
            /\ last.result.total_matches = Cardinality(mine)
            /\ last.result.wins <= last.result.total_matches
            /\ last.result.losses = last.result.total_matches - last.result.wins

\* C34: get_player_matches without a limit returns at most 10 matches, each
\* with exactly one MatchPlayer, the one of the requested account.
C34_DefaultPageSize ==
    (/\ last.op = "api_get_player_matches"
     /\ last.arg[3] = <<>>
     /\ last.result.raised = "none") =>
        /\ Len(last.result.matches) <= PageSize
        /\ \A i \in 1 .. Len(last.result.matches) :
               last.result.matches[i].players = <<last.arg[1][2]>>

\* C35: in every reachable state of the pipeline, across Bootstrapping, the
\* Discovering cycles, the drain and restarts, the queue holds at most one job
\* per match id.
C35_OneJobPerRecord ==
    \A i, j \in 1 .. Len(queue) : queue[i].match_id = queue[j].match_id => i = j

\* the detail fetch of the job just processed was answered NotFound for match
\* m, and no other job of m is waiting
NotFoundFor(m) ==
    /\ last.op = "process_match"
    /\ last.result = "not found"
    /\ last.arg[1].match_id = m
    /\ \A i \in 1 .. Len(queue) : queue[i].match_id # m

\* a job of match m is waiting in the queue or is held by the drain
Pending(m) ==
    \/ \E i \in 1 .. Len(queue) : queue[i].match_id = m
    \/ item # <<>> /\ item[1].match_id = m

\* C36: once the detail fetch of a match was answered NotFound, no later
\* Discovering cycle enqueues that match again, whatever the remote lists, so
\* no job of it is ever pending again and no detail is fetched for it again.
C36_NotFoundIsPermanent ==
    \A m \in MatchIds : [](NotFoundFor(m) => [](~Pending(m)))

\* the account ids whose row in players has the activity flag set
Flagged == {a \in DOMAIN players : players[a] # <<>> /\ players[a][1].active}

\* the account ids a list of players names
Named(list) == {list[i] : i \in 1 .. Len(list)}

\* C38: get_players returns exactly the account ids whose activity flag is
\* set, so a Bootstrapping or Discovering phase that starts after
\* remove_player(id) is given a list without id, until add_player(id) sets the
\* flag again; within a phase, a list is fetched and jobs are enqueued only for
\* the players of the list the phase started with, one after the other.
C38_RemovedPlayerNotPolled ==
    [][/\ (last'.op = "restart" \/ (last'.op = "get_next_match" /\ item' = <<>>))
            => /\ Named(todo') = Flagged
               /\ Len(todo') = Cardinality(Flagged)
       /\ last'.op \in {"initialize_player", "check_new_matches"}
            => /\ todo # <<>>
               /\ todo' \in {Tail(todo), <<>>}
       /\ ~(\/ last'.op \in {"restart", "initialize_player", "check_new_matches"}
            \/ (last'.op = "get_next_match" /\ item' = <<>>))
            => /\ todo' = todo
               /\ \A j \in (Len(queue) + 1) .. Len(queue') : queue'[j].retry_count > 0]_vars

\* a Discovering phase starts after one of the two monitored players was
\* removed: its list names the other player alone
C38_Witness ==
    /\ last.op = "get_next_match"
    /\ pc = "discovering"
    /\ \E a \in AccountIds :
           /\ players[a] # <<>>
           /\ ~players[a][1].active
           /\ todo = <<CHOOSE b \in AccountIds : b # a>>

====
